---- MODULE Spec2Model ----
(***************************************************************************)
(* Model of heavix/multi_queue: CPQueue<T> (the bounded queue with its     *)
(* three EFullMode policies) and CMultiQueueProcessor<K,V> (the key->queue *)
(* map, the subscribed-key set and the worker thread Process()).           *)
(*                                                                         *)
(* Threads: one worker (Process) and the client threads of Clients, which  *)
(* call the public operations.  A critical section that holds a mutex and  *)
(* never blocks inside it is one atomic step; the two mutexes the worker   *)
(* keeps across steps (keys_mtx during a sweep, a queue's consumer_mtx     *)
(* inside Consume) are explicit, because other threads wait for them.      *)
(* A condition-variable wait is three positions: the predicate is          *)
(* evaluated, the thread enters the wait set, the thread is in the wait    *)
(* set; notify_all only reaches threads in the wait set.                   *)
(***************************************************************************)
EXTENDS Integers, Sequences, FiniteSets, TLC

\* ------------------------------------------------------------------ bounds
\* Capacity given to every queue by CreateQueue (1000 in the source, scaled).
MAX_CAPACITY == 2
\* Number of Enqueue calls that reach a queue in one behaviour.
MaxEnqueue == 4

Keys == {1, 2}
Consumers == {"A", "B"}
Clients == {"t1", "t2"}
FullModes == {"SKIP_LAST", "DROP_FIRST", "WAIT"}
NoConsumer == "nullptr"

VARIABLES
  \* CMultiQueueProcessor
  keys,          \* std::set<KeyType> keys
  queues,        \* key -> the CPQueue object of the key (present = in the map)
  running,       \* bool running
  th,            \* std::thread th: the Process threads started and not joined
  data_ready,    \* bool data_ready
  keys_mtx,      \* "free" or "worker"
  consumer_mtx,  \* key -> "free" or "worker" (CPQueue::consumer_mtx)
  \* the worker thread, Process()
  wpc,           \* position of the worker
  wit,           \* keys the for loop of the sweep has still to visit
  wq,            \* RawQPtr q of the iteration: "null", "ok" or "dangling"
  \* the client threads
  pc, cop, ckey, cval, ccons, cq,
  \* process
  aborted,       \* assert failure / crash / std::terminate
  dtor,          \* "no", "started", "destroyed"
  \* history
  nEnq,          \* Enqueue calls that found a queue
  pushLog,       \* key -> the values whose Push reached the buffer section
  popLog,        \* key -> the values removed from the buffer
  sweep,         \* the current sweep: its keys, Consume calls and deliveries
  sinceDelivery, \* a -> b -> deliveries for b since the last delivery for a
  sinceVisit,    \* a -> b -> deliveries for b since the last Consume call on a
  created        \* the keys CreateQueue has made a queue for
vars == <<keys, queues, running, th, data_ready, keys_mtx, consumer_mtx, wpc, wit, wq,
          pc, cop, ckey, cval, ccons, cq, aborted, dtor, nEnq, pushLog, popLog, sweep,
          sinceDelivery, sinceVisit, created>>

dispVars == <<keys, queues, running, th, data_ready, keys_mtx, consumer_mtx>>
workerVars == <<wpc, wit, wq>>
clientVars == <<pc, cop, ckey, cval, ccons, cq>>
sweepVars == <<sweep, sinceDelivery, sinceVisit>>
histVars == <<nEnq, pushLog, popLog, sweepVars, created>>

Min(S) == CHOOSE x \in S : \A y \in S : x <= y

\* A key without a queue in the map.
NoQueue ==
  [present |-> FALSE, full_mode |-> "SKIP_LAST", skip_if_no_consumer |-> TRUE,
   cpq |-> <<>>, consumer |-> NoConsumer]

\* CPQueue(max_size, fm, skip_no_cons, notifier): empty buffer, no consumer.
NewQueue(fm, skip) ==
  [present |-> TRUE, full_mode |-> fm, skip_if_no_consumer |-> skip,
   cpq |-> <<>>, consumer |-> NoConsumer]

NoSweep(K) ==
  [keys |-> K, visits |-> [k \in Keys |-> 0], delivered |-> [k \in Keys |-> 0]]
NoGap == [a \in Keys |-> [b \in Keys |-> 0]]

Init ==
  /\ keys = {}
  /\ queues = [k \in Keys |-> NoQueue]
  /\ running = TRUE
  /\ th = 1
  /\ data_ready = FALSE
  /\ keys_mtx = "free"
  /\ consumer_mtx = [k \in Keys |-> "free"]
  /\ wpc = "top"
  /\ wit = {}
  /\ wq = "null"
  /\ pc = [p \in Clients |-> "idle"]
  /\ cop = [p \in Clients |-> "none"]
  /\ ckey = [p \in Clients |-> 1]
  /\ cval = [p \in Clients |-> 0]
  /\ ccons = [p \in Clients |-> NoConsumer]
  /\ cq = [p \in Clients |-> "null"]
  /\ aborted = FALSE
  /\ dtor = "no"
  /\ nEnq = 0
  /\ pushLog = [k \in Keys |-> <<>>]
  /\ popLog = [k \in Keys |-> <<>>]
  /\ sweep = NoSweep({})
  /\ sinceDelivery = NoGap
  /\ sinceVisit = NoGap
  /\ created = {}

\* ---------------------------------------------------------------- helpers
\* The process has not crashed and the processor has not been destroyed.
Alive == ~aborted /\ dtor # "destroyed"

\* GetQueue(id): the raw pointer of the key's queue, or nullptr.
GetQueue(id) == IF queues[id].present THEN "ok" ELSE "null"

\* CPQueue::size().
size(k) == Len(queues[k].cpq)

\* cv.notify_all() of the processor's condition variable: the worker leaves
\* the wait set, if it is in it, and will re-evaluate its predicate.
NotifiedWorker(w) ==
  CASE w = "w1_wait" -> "w1_pred"
    [] w = "w2_wait" -> "w2_pred"
    [] OTHER -> w

\* cv.notify_all() of queue k's condition variable: every producer in the
\* wait set of that queue object leaves it.
NotifiedProducers(k) ==
  [p \in Clients |->
     IF pc[p] = "Push_wait" /\ ckey[p] = k /\ cq[p] = "ok" THEN "Push_woken" ELSE pc[p]]

\* ------------------------------------------------------------------ worker
\* Mutant of NextKey: the loop stays on a key whose queue still holds items.
NextKey_DrainsKey ==
  LET k == Min(wit)
      rest == IF queues[k].cpq # <<>> THEN wit ELSE wit \ {k} IN
  /\ wit' = rest
  /\ wq' = "null"
  /\ IF rest = {}
       THEN wpc' = "top" /\ keys_mtx' = "free"
       ELSE wpc' = "iter" /\ keys_mtx' = keys_mtx

\* End of one iteration of `for (KeyType key : keys)`: the next key, or the
\* end of the sweep, where key_loc goes out of scope and keys_mtx is released.
NextKey ==
  LET rest == wit \ {Min(wit)} IN
  /\ wit' = rest
  /\ wq' = "null"
  /\ IF rest = {}
       THEN wpc' = "top" /\ keys_mtx' = "free"
       ELSE wpc' = "iter" /\ keys_mtx' = keys_mtx

\* while (running)
WhileRunning ==
  /\ Alive
  /\ wpc = "top"
  /\ wpc' = IF running THEN "w1_pred" ELSE "done"
  /\ UNCHANGED <<wit, wq, dispVars, clientVars, histVars, aborted, dtor>>

\* The predicate of the first wait: !keys.empty() || !running.
NoKeysPredicate == keys # {} \/ ~running

\* cv.wait(lc, pred) of the no-consumers wait: the predicate is evaluated
\* (under keys_mtx, which no client holds across a step).
WaitKeysPred ==
  /\ Alive
  /\ wpc = "w1_pred"
  /\ keys_mtx = "free"
  /\ wpc' = IF NoKeysPredicate THEN "lock_keys" ELSE "w1_block"
  /\ UNCHANGED <<wit, wq, dispVars, clientVars, histVars, aborted, dtor>>

\* The predicate was false: the worker enters the wait set of cv.
WaitKeysBlock ==
  /\ Alive
  /\ wpc = "w1_block"
  /\ wpc' = "w1_wait"
  /\ UNCHANGED <<wit, wq, dispVars, clientVars, histVars, aborted, dtor>>

\* std::unique_lock key_loc{keys_mtx}; the for loop starts on keys.
LockKeys ==
  /\ Alive
  /\ wpc = "lock_keys"
  /\ keys_mtx = "free"
  /\ wit' = keys
  /\ sweep' = NoSweep(keys)
  /\ IF keys = {}
       THEN wpc' = "top" /\ keys_mtx' = "free"
       ELSE wpc' = "iter" /\ keys_mtx' = "worker"
  /\ UNCHANGED <<wq, keys, queues, running, th, data_ready, consumer_mtx, clientVars,
                 nEnq, pushLog, popLog, sinceDelivery, sinceVisit, created, aborted, dtor>>

\* data_ready = false; q = GetQueue(key); assert(q).  A null q ends the
\* process (the assert, or the call through the null pointer without it).
IterBegin ==
  /\ Alive
  /\ wpc = "iter"
  /\ data_ready' = FALSE
  /\ wq' = GetQueue(Min(wit))
  /\ IF GetQueue(Min(wit)) = "null"
       THEN aborted' = TRUE /\ wpc' = wpc
       ELSE aborted' = aborted /\ wpc' = "Consume"
  /\ UNCHANGED <<wit, keys, queues, running, th, keys_mtx, consumer_mtx, clientVars,
                 histVars, dtor>>

\* CPQueue::Consume, first part: lock consumer_mtx; no consumer: return false.
ConsumeEnter ==
  /\ Alive
  /\ wpc = "Consume"
  /\ wq = "ok"
  /\ LET k == Min(wit) IN
     /\ consumer_mtx[k] = "free"
     /\ sweep' = [sweep EXCEPT !.visits[k] = @ + 1]
     /\ sinceVisit' = [sinceVisit EXCEPT ![k] = [b \in Keys |-> 0]]
     /\ IF queues[k].consumer = NoConsumer
          THEN wpc' = "idle_check" /\ consumer_mtx' = consumer_mtx
          ELSE wpc' = "Consume_locked" /\ consumer_mtx' = [consumer_mtx EXCEPT ![k] = "worker"]
  /\ UNCHANGED <<wit, wq, keys, queues, running, th, data_ready, keys_mtx, clientVars,
                 nEnq, pushLog, popLog, sinceDelivery, created, aborted, dtor>>

\* The element Consume hands to the consumer and removes: the front.
ConsumeFront(q) == Head(q)
ConsumeRest(q) == Tail(q)

\* Mutant of NotifyOnPop: no notification after an element left the buffer.
NotifyOnPop_Never(q) == FALSE

\* if (full_mode == EFullMode::WAIT) cv.notify_all(): after an element
\* left the buffer, in Consume and in Clear.
NotifyOnPop(q) == q.full_mode = "WAIT"

\* The counters of deliveries between deliveries saturate at 2.
Counted(n) == IF n < 2 THEN n + 1 ELSE n
Delivered(since, k) ==
  [a \in Keys |-> [b \in Keys |->
     IF a = k THEN 0
     ELSE IF b = k THEN Counted(since[a][b]) ELSE since[a][b]]]

\* CPQueue::Consume, second part: lock mtx; empty: return false; else
\* consumer->Consume(cpq.front()); cpq.pop(); notify_all under WAIT.
ConsumeDeliver ==
  /\ Alive
  /\ wpc = "Consume_locked"
  /\ wq = "ok"
  /\ LET k == Min(wit)
         q == queues[k] IN
     /\ consumer_mtx' = [consumer_mtx EXCEPT ![k] = "free"]
     /\ wpc' = "idle_check"
     /\ IF q.cpq = <<>>
          THEN UNCHANGED <<queues, popLog, sweepVars, pc>>
          ELSE /\ popLog' = [popLog EXCEPT ![k] = Append(@, <<ConsumeFront(q.cpq), "deliver">>)]
               /\ queues' = [queues EXCEPT ![k].cpq = ConsumeRest(q.cpq)]
               /\ sweep' = [sweep EXCEPT !.delivered[k] = @ + 1]
               /\ sinceDelivery' = Delivered(sinceDelivery, k)
               /\ sinceVisit' = [a \in Keys |-> [b \in Keys |->
                                   IF b = k /\ a # k THEN Counted(sinceVisit[a][b])
                                   ELSE sinceVisit[a][b]]]
               /\ pc' = IF NotifyOnPop(q) THEN NotifiedProducers(k) ELSE pc
  /\ UNCHANGED <<wit, wq, keys, running, th, data_ready, keys_mtx, cop, ckey, cval, ccons, cq,
                 nEnq, pushLog, created, aborted, dtor>>

\* The scan `for (KeyType key : keys)` under data_ready_mtx, in key order:
\* it stops at the first non-empty queue; a key without a queue fails assert(q).
ScanAsserts ==
  \E k \in keys : ~queues[k].present
                  /\ \A j \in keys : j < k => (queues[j].present /\ size(j) = 0)
all_queues_empty == \A k \in keys : size(k) = 0

\* if (!data_ready) { scan; if (all_queues_empty) cv.wait(...) }
IdleCheck ==
  /\ Alive
  /\ wpc = "idle_check"
  /\ IF data_ready
       THEN NextKey /\ aborted' = aborted
       ELSE IF ScanAsserts
              THEN aborted' = TRUE /\ UNCHANGED <<wpc, wit, wq, keys_mtx>>
              ELSE /\ aborted' = aborted
                   /\ IF all_queues_empty
                        THEN wpc' = "w2_pred" /\ UNCHANGED <<wit, wq, keys_mtx>>
                        ELSE NextKey
  /\ UNCHANGED <<keys, queues, running, th, data_ready, consumer_mtx, clientVars, histVars, dtor>>

\* The predicate of the idle wait: data_ready || !running.
IdlePredicate == data_ready \/ ~running

WaitDataPred ==
  /\ Alive
  /\ wpc = "w2_pred"
  /\ IF IdlePredicate
       THEN NextKey
       ELSE wpc' = "w2_block" /\ UNCHANGED <<wit, wq, keys_mtx>>
  /\ UNCHANGED <<keys, queues, running, th, data_ready, consumer_mtx, clientVars, histVars,
                 aborted, dtor>>

WaitDataBlock ==
  /\ Alive
  /\ wpc = "w2_block"
  /\ wpc' = "w2_wait"
  /\ UNCHANGED <<wit, wq, dispVars, clientVars, histVars, aborted, dtor>>

\* A spurious wake-up of the worker: it re-evaluates its predicate.
WorkerSpurious ==
  /\ Alive
  /\ wpc \in {"w1_wait", "w2_wait"}
  /\ wpc' = NotifiedWorker(wpc)
  /\ UNCHANGED <<wit, wq, dispVars, clientVars, histVars, aborted, dtor>>

\* Consume through a pointer to a queue DeleteQueue has erased: undefined
\* behaviour; the process crashes, or the call runs on the freed object and
\* returns without touching a queue of the map.
ConsumeDangling ==
  /\ Alive
  /\ wpc \in {"Consume", "Consume_locked"}
  /\ wq = "dangling"
  /\ \/ aborted' = TRUE /\ wpc' = wpc
     \/ aborted' = aborted /\ wpc' = "idle_check"
  /\ UNCHANGED <<wit, wq, dispVars, clientVars, histVars, dtor>>

Worker ==
  \/ WhileRunning
  \/ WaitKeysPred
  \/ WaitKeysBlock
  \/ LockKeys
  \/ IterBegin
  \/ ConsumeEnter
  \/ ConsumeDeliver
  \/ IdleCheck
  \/ WaitDataPred
  \/ WaitDataBlock

\* ----------------------------------------------------------------- clients
\* A public operation returns: the thread's locals go out of scope.
Return(p) ==
  /\ cop' = [cop EXCEPT ![p] = "none"]
  /\ ckey' = [ckey EXCEPT ![p] = 1]
  /\ cval' = [cval EXCEPT ![p] = 0]
  /\ ccons' = [ccons EXCEPT ![p] = NoConsumer]
  /\ cq' = [cq EXCEPT ![p] = "null"]

\* A thread may start a public operation: it is in none, and the processor
\* is not being destroyed.
CanCall(p) == Alive /\ pc[p] = "idle" /\ dtor = "no"

\* CreateQueue(id, fm, skip_no_cons): emplace under queues_mtx if absent.
CreateQueue(p, id, fm, skip) ==
  /\ CanCall(p)
  /\ ~queues[id].present
  /\ id \notin created
  /\ created' = created \cup {id}
  /\ queues' = [queues EXCEPT ![id] = NewQueue(fm, skip)]
  /\ pushLog' = [pushLog EXCEPT ![id] = <<>>]
  /\ popLog' = [popLog EXCEPT ![id] = <<>>]
  /\ UNCHANGED <<keys, running, th, data_ready, keys_mtx, consumer_mtx, workerVars, clientVars,
                 nEnq, sweepVars, aborted, dtor>>

\* Subscribe / Unsubscribe / DeleteQueue start with q = GetQueue(id).
ControlCall(p, op, id, cons) ==
  /\ CanCall(p)
  /\ cop' = [cop EXCEPT ![p] = op]
  /\ ckey' = [ckey EXCEPT ![p] = id]
  /\ ccons' = [ccons EXCEPT ![p] = cons]
  /\ cq' = [cq EXCEPT ![p] = GetQueue(id)]
  /\ pc' = [pc EXCEPT ![p] = IF GetQueue(id) = "ok" THEN "SetConsumer" ELSE "keys_lock"]
  /\ UNCHANGED <<cval, dispVars, workerVars, histVars, aborted, dtor>>

Subscribe(p, id, consumer) == ControlCall(p, "Subscribe", id, consumer)
Unsubscribe(p, id) == ControlCall(p, "Unsubscribe", id, NoConsumer)
DeleteQueue(p, id) == ControlCall(p, "DeleteQueue", id, NoConsumer)

\* CPQueue::SetConsumer(cons): consumer = cons under consumer_mtx.
SetConsumer(p) ==
  /\ Alive
  /\ pc[p] = "SetConsumer"
  /\ cq[p] = "ok"
  /\ consumer_mtx[ckey[p]] = "free"
  /\ queues' = [queues EXCEPT ![ckey[p]].consumer = ccons[p]]
  /\ pc' = [pc EXCEPT ![p] = "keys_lock"]
  /\ UNCHANGED <<keys, running, th, data_ready, keys_mtx, consumer_mtx, workerVars,
                 cop, ckey, cval, ccons, cq, histVars, aborted, dtor>>

\* std::lock_guard key_lc{keys_mtx}; keys.insert(id) or keys.erase(id).
\* The thread waits here while the worker holds keys_mtx.
UpdateKeys(p) ==
  /\ Alive
  /\ pc[p] = "keys_lock"
  /\ keys_mtx = "free"
  /\ keys' = IF cop[p] = "Subscribe" THEN keys \cup {ckey[p]} ELSE keys \ {ckey[p]}
  /\ sinceVisit' = IF keys' = keys THEN sinceVisit
                   ELSE [sinceVisit EXCEPT ![ckey[p]] = [b \in Keys |-> 0]]
  /\ IF cop[p] = "DeleteQueue"
       THEN pc' = [pc EXCEPT ![p] = "erase"] /\ UNCHANGED <<cop, ckey, cval, ccons, cq>>
       ELSE pc' = [pc EXCEPT ![p] = "idle"] /\ Return(p)
  /\ UNCHANGED <<queues, running, th, data_ready, keys_mtx, consumer_mtx, workerVars,
                 nEnq, pushLog, popLog, sweep, sinceDelivery, created, aborted, dtor>>

\* DeleteQueue: queues.erase(id) under queues_mtx.  The unique_ptr frees the
\* queue: every raw pointer to it that a thread still holds now dangles.
EraseQueue(p) ==
  /\ Alive
  /\ pc[p] = "erase"
  /\ LET id == ckey[p] IN
     /\ queues' = [queues EXCEPT ![id] = NoQueue]
     /\ consumer_mtx' = [consumer_mtx EXCEPT ![id] = "free"]
     /\ pushLog' = [pushLog EXCEPT ![id] = <<>>]
     /\ popLog' = [popLog EXCEPT ![id] = <<>>]
     /\ wq' = IF wq = "ok" /\ wit # {} /\ Min(wit) = id THEN "dangling" ELSE wq
     /\ cq' = [t \in Clients |->
                 IF t = p THEN "null"
                 ELSE IF cq[t] = "ok" /\ ckey[t] = id THEN "dangling" ELSE cq[t]]
  /\ pc' = [pc EXCEPT ![p] = "idle"]
  /\ cop' = [cop EXCEPT ![p] = "none"]
  /\ ckey' = [ckey EXCEPT ![p] = 1]
  /\ UNCHANGED <<keys, running, th, data_ready, keys_mtx, wpc, wit, cval, ccons,
                 nEnq, sweepVars, created, aborted, dtor>>

\* Enqueue(id, value): q = GetQueue(id); if (q) q->Push(value).  The values
\* are 1, 2, ... in call order, so that every pushed value is distinct.
Enqueue(p, id, max) ==
  /\ CanCall(p)
  /\ GetQueue(id) = "ok"
  /\ nEnq < max
  /\ nEnq' = nEnq + 1
  /\ cop' = [cop EXCEPT ![p] = "Enqueue"]
  /\ ckey' = [ckey EXCEPT ![p] = id]
  /\ cval' = [cval EXCEPT ![p] = nEnq + 1]
  /\ cq' = [cq EXCEPT ![p] = "ok"]
  /\ pc' = [pc EXCEPT ![p] = "Push"]
  /\ UNCHANGED <<ccons, dispVars, workerVars, pushLog, popLog, sweepVars, created, aborted, dtor>>

\* Push, first part: if (skip_if_no_consumer) { lock consumer_mtx;
\* if (consumer == nullptr) return; }
PushCheckConsumer(p) ==
  /\ Alive
  /\ pc[p] = "Push"
  /\ cq[p] = "ok"
  /\ LET q == queues[ckey[p]] IN
     /\ q.skip_if_no_consumer => consumer_mtx[ckey[p]] = "free"
     /\ IF q.skip_if_no_consumer /\ q.consumer = NoConsumer
          THEN pc' = [pc EXCEPT ![p] = "idle"] /\ Return(p)
          ELSE pc' = [pc EXCEPT ![p] = "Push_lock"] /\ UNCHANGED <<cop, ckey, cval, ccons, cq>>
  /\ UNCHANGED <<dispVars, workerVars, histVars, aborted, dtor>>

\* const bool is_full = cpq.size() == maxSize
is_full(q) == Len(q.cpq) = MAX_CAPACITY

\* The predicate of the wait in Push: cpq.size() < maxSize.
HasSpace(q) == Len(q.cpq) < MAX_CAPACITY

\* Mutant of PushBack: the value is put at the head of the buffer.
PushBack_AtHead(buf, value) == <<value>> \o buf

\* cpq.push(value)
PushBack(buf, value) == Append(buf, value)

\* Mutant of DropFirst: the newest buffered value is evicted.
DropFirst_Newest(buf) == SubSeq(buf, 1, Len(buf) - 1)

\* cpq.pop()
DropFirst(buf) == Tail(buf)

\* cpq.push(value); loc.unlock(); the thread goes on to Notify.  The log
\* tells the push of a producer that had waited for space from the others.
PushAppend(p, buf) ==
  /\ queues' = [queues EXCEPT ![ckey[p]].cpq = PushBack(buf, cval[p])]
  /\ pushLog' = [pushLog EXCEPT ![ckey[p]] =
                   Append(@, <<cval[p], IF pc[p] = "Push_woken" THEN "resumed" ELSE "pushed">>)]
  /\ pc' = [pc EXCEPT ![p] = "Notify"]
  /\ UNCHANGED <<cop, ckey, cval, ccons, cq>>

\* Mutant of PushSkipLast: the newest buffered value is replaced.
PushSkipLast_Overwrites(p) ==
  LET buf == queues[ckey[p]].cpq IN
  /\ queues' = [queues EXCEPT ![ckey[p]].cpq = [buf EXCEPT ![Len(buf)] = cval[p]]]
  /\ pushLog' = [pushLog EXCEPT ![ckey[p]] = Append(@, <<cval[p], "skipped">>)]
  /\ pc' = [pc EXCEPT ![p] = "idle"]
  /\ Return(p)
  /\ UNCHANGED popLog

\* SKIP_LAST on a full queue: return, the value is not pushed.
PushSkipLast(p) ==
  /\ pushLog' = [pushLog EXCEPT ![ckey[p]] = Append(@, <<cval[p], "skipped">>)]
  /\ pc' = [pc EXCEPT ![p] = "idle"]
  /\ Return(p)
  /\ UNCHANGED <<queues, popLog>>

\* DROP_FIRST on a full queue: cpq.pop(), then the push.
PushDropFirst(p) ==
  /\ popLog' = [popLog EXCEPT ![ckey[p]] = Append(@, <<Head(queues[ckey[p]].cpq), "dropped">>)]
  /\ PushAppend(p, DropFirst(queues[ckey[p]].cpq))

\* WAIT on a full queue: cv.wait(loc, pred): the predicate is false under
\* mtx, so the producer releases mtx and enters the wait set in one step.
PushWait(p) ==
  /\ pc' = [pc EXCEPT ![p] = "Push_wait"]
  /\ UNCHANGED <<queues, pushLog, popLog, cop, ckey, cval, ccons, cq>>

\* Push, under mtx: the full-mode decision and cpq.push(value).
PushLocked(p) ==
  /\ Alive
  /\ pc[p] = "Push_lock"
  /\ cq[p] = "ok"
  /\ LET q == queues[ckey[p]] IN
     IF ~is_full(q)
       THEN PushAppend(p, q.cpq) /\ popLog' = popLog
       ELSE CASE q.full_mode = "SKIP_LAST" -> PushSkipLast(p)
              [] q.full_mode = "DROP_FIRST" -> PushDropFirst(p)
              [] q.full_mode = "WAIT" -> PushWait(p)
  /\ UNCHANGED <<keys, running, th, data_ready, keys_mtx, consumer_mtx, workerVars,
                 nEnq, sweepVars, created, aborted, dtor>>

\* Mutant of WaitRecheck: a woken producer pushes without re-evaluating.
WaitRecheck_Skipped(q) == TRUE

\* A producer notified in cv.wait(loc, pred) re-acquires mtx and re-evaluates
\* the predicate: it pushes if there is space and waits again if not.
WaitRecheck(q) == HasSpace(q)

PushWoken(p) ==
  /\ Alive
  /\ pc[p] = "Push_woken"
  /\ cq[p] = "ok"
  /\ LET q == queues[ckey[p]] IN
     IF WaitRecheck(q)
       THEN PushAppend(p, q.cpq)
       ELSE /\ pc' = [pc EXCEPT ![p] = "Push_wait"]
            /\ UNCHANGED <<queues, pushLog, cop, ckey, cval, ccons, cq>>
  /\ UNCHANGED <<keys, running, th, data_ready, keys_mtx, consumer_mtx, workerVars,
                 nEnq, popLog, sweepVars, created, aborted, dtor>>

\* A spurious wake-up of a producer waiting in Push.
ProducerSpurious(p) ==
  /\ Alive
  /\ pc[p] = "Push_wait"
  /\ cq[p] = "ok"
  /\ pc' = [pc EXCEPT ![p] = "Push_woken"]
  /\ UNCHANGED <<cop, ckey, cval, ccons, cq, dispVars, workerVars, histVars, aborted, dtor>>

\* notifier->Notify(): data_ready = true under data_ready_mtx; cv.notify_all().
Notify(p) ==
  /\ Alive
  /\ pc[p] = "Notify"
  /\ cq[p] = "ok"
  /\ data_ready' = TRUE
  /\ wpc' = NotifiedWorker(wpc)
  /\ pc' = [pc EXCEPT ![p] = "idle"]
  /\ Return(p)
  /\ UNCHANGED <<keys, queues, running, th, keys_mtx, consumer_mtx, wit, wq, histVars,
                 aborted, dtor>>

\* A call on a CPQueue that DeleteQueue has erased meanwhile: undefined
\* behaviour; the process crashes, or the call runs on the freed object and
\* returns without touching a queue of the map.
ClientDangling(p) ==
  /\ Alive
  /\ pc[p] \in {"SetConsumer", "Push", "Push_lock", "Push_wait", "Push_woken", "Notify",
                "Clear_notify"}
  /\ cq[p] = "dangling"
  /\ \/ aborted' = TRUE /\ UNCHANGED clientVars
     \/ /\ aborted' = aborted
        /\ IF pc[p] = "SetConsumer"
             THEN /\ pc' = [pc EXCEPT ![p] = "keys_lock"]
                  /\ cq' = [cq EXCEPT ![p] = "null"]
                  /\ UNCHANGED <<cop, ckey, cval, ccons>>
             ELSE pc' = [pc EXCEPT ![p] = "idle"] /\ Return(p)
  /\ UNCHANGED <<dispVars, workerVars, histVars, dtor>>

\* StartProcessing(): if (!running) { running = true;
\* th = std::thread(Process) }.  The std::thread is constructed, which
\* starts a new worker, and is then move-assigned to th; th still holds the
\* previous worker when it has not been joined, and the assignment to a
\* joinable std::thread calls std::terminate.
StartProcessing(p) ==
  /\ CanCall(p)
  /\ IF running
       THEN UNCHANGED <<running, th, aborted>>
       ELSE /\ running' = TRUE
            /\ th' = th + 1
            /\ aborted' = (th > 0)
  /\ UNCHANGED <<keys, queues, data_ready, keys_mtx, consumer_mtx, workerVars, clientVars,
                 histVars, dtor>>

\* StopProcessing(): running = false; then cv.notify_all().
StopProcessing(p) ==
  /\ CanCall(p)
  /\ running' = FALSE
  /\ cop' = [cop EXCEPT ![p] = "StopProcessing"]
  /\ pc' = [pc EXCEPT ![p] = "Stop_notify"]
  /\ UNCHANGED <<keys, queues, th, data_ready, keys_mtx, consumer_mtx, workerVars,
                 ckey, cval, ccons, cq, histVars, aborted, dtor>>

StopNotify(p) ==
  /\ Alive
  /\ pc[p] = "Stop_notify"
  /\ wpc' = NotifiedWorker(wpc)
  /\ IF cop[p] = "Destructor"
       THEN pc' = [pc EXCEPT ![p] = "join"] /\ UNCHANGED <<cop, ckey, cval, ccons, cq>>
       ELSE pc' = [pc EXCEPT ![p] = "idle"] /\ Return(p)
  /\ UNCHANGED <<wit, wq, dispVars, histVars, aborted, dtor>>

\* ~CMultiQueueProcessor(): if (running) StopProcessing(); th.join().
\* The caller destroys the processor when no other thread is inside a call,
\* except producers suspended in Push.
Destructor(p) ==
  /\ CanCall(p)
  /\ \A t \in Clients \ {p} : pc[t] \in {"idle", "Push_wait"}
  /\ dtor' = "started"
  /\ cop' = [cop EXCEPT ![p] = "Destructor"]
  /\ running' = FALSE
  /\ pc' = [pc EXCEPT ![p] = IF running THEN "Stop_notify" ELSE "join"]
  /\ UNCHANGED <<keys, queues, th, data_ready, keys_mtx, consumer_mtx, workerVars,
                 ckey, cval, ccons, cq, histVars, aborted>>

\* th.join() returns once Process() has returned; the members are destroyed.
Join(p) ==
  /\ Alive
  /\ pc[p] = "join"
  /\ wpc = "done"
  /\ th' = th - 1
  /\ dtor' = "destroyed"
  /\ pc' = [pc EXCEPT ![p] = "idle"]
  /\ Return(p)
  /\ UNCHANGED <<keys, queues, running, data_ready, keys_mtx, consumer_mtx, workerVars,
                 histVars, aborted>>

\* CPQueue::Clear(), called on the queue object directly: cpq = {} under
\* mtx; after the unlock, cv.notify_all() under WAIT.
Clear(p, id) ==
  /\ CanCall(p)
  /\ queues[id].present
  /\ queues' = [queues EXCEPT ![id].cpq = <<>>]
  /\ popLog' = [popLog EXCEPT ![id] =
                  @ \o [i \in 1..Len(queues[id].cpq) |-> <<queues[id].cpq[i], "cleared">>]]
  /\ IF NotifyOnPop(queues[id])
       THEN /\ pc' = [pc EXCEPT ![p] = "Clear_notify"]
            /\ cop' = [cop EXCEPT ![p] = "Clear"]
            /\ ckey' = [ckey EXCEPT ![p] = id]
            /\ cq' = [cq EXCEPT ![p] = "ok"]
            /\ UNCHANGED <<cval, ccons>>
       ELSE UNCHANGED clientVars
  /\ UNCHANGED <<keys, running, th, data_ready, keys_mtx, consumer_mtx, workerVars,
                 nEnq, pushLog, sweepVars, created, aborted, dtor>>

ClearNotify(p) ==
  /\ Alive
  /\ pc[p] = "Clear_notify"
  /\ cq[p] = "ok"
  /\ pc' = [NotifiedProducers(ckey[p]) EXCEPT ![p] = "idle"]
  /\ Return(p)
  /\ UNCHANGED <<dispVars, workerVars, histVars, aborted, dtor>>

\* The steps that finish a Subscribe or Unsubscribe call.
ControlStep(p) ==
  \/ SetConsumer(p)
  \/ UpdateKeys(p)

\* The steps that finish an Enqueue call that does not block.
EnqueueStep(p) ==
  \/ PushCheckConsumer(p)
  \/ PushLocked(p)
  \/ Notify(p)

\* The steps that finish the destructor.
DestructorStep(p) ==
  \/ StopNotify(p)
  \/ Join(p)

Undefined ==
  \/ ConsumeDangling
  \/ \E p \in Clients : ClientDangling(p)

Spurious ==
  \/ WorkerSpurious
  \/ \E p \in Clients : ProducerSpurious(p)

\* ---------------------------------------------------------- specifications
\* The threads of the test program: the main thread, which creates the
\* queues, subscribes the consumers and destroys the processor, and the
\* producer thread, which calls Enqueue.  Queues are created as the test
\* creates them, with CreateQueue's default arguments.
Main == "t1"
Producer == "t2"

MainCall ==
  \/ \E id \in Keys : CreateQueue(Main, id, "SKIP_LAST", TRUE)
  \/ \E id \in Keys : Subscribe(Main, id, "A")
  \/ Destructor(Main)

ProducerCall == \E id \in Keys : Enqueue(Producer, id, MaxEnqueue)

Next ==
  \/ Worker
  \/ \E p \in Clients : ControlStep(p) \/ EnqueueStep(p) \/ DestructorStep(p)
  \/ MainCall
  \/ ProducerCall
  \/ WorkerSpurious

Spec == Init /\ [][Next]_vars

\* One queue under every full mode, fed by two producers: the first thread
\* also creates the queue and attaches and detaches its consumer.
QueueCall ==
  \/ \E fm \in FullModes, skip \in BOOLEAN : CreateQueue(Main, 1, fm, skip)
  \/ Subscribe(Main, 1, "A")
  \/ Unsubscribe(Main, 1)
  \/ \E p \in Clients : Enqueue(p, 1, MaxEnqueue)

NextQueue ==
  \/ Worker
  \/ \E p \in Clients : ControlStep(p) \/ EnqueueStep(p) \/ PushWoken(p)
  \/ QueueCall
  \/ Spurious

SpecQueue == Init /\ [][NextQueue]_vars

\* One WAIT queue that keeps what is pushed without a consumer, fed by two
\* producers; the first thread also subscribes a consumer and clears the
\* queue.
WaitCall ==
  \/ CreateQueue(Main, 1, "WAIT", FALSE)
  \/ Subscribe(Main, 1, "A")
  \/ Clear(Main, 1)
  \/ \E p \in Clients : Enqueue(p, 1, MaxEnqueue)

WaitStep(p) ==
  \/ ControlStep(p)
  \/ EnqueueStep(p)
  \/ PushWoken(p)
  \/ ClearNotify(p)

NextWait ==
  \/ Worker
  \/ \E p \in Clients : WaitStep(p)
  \/ WaitCall
  \/ Spurious

SpecWait == Init /\ [][NextWait]_vars

\* Every thread that can take a step of the call it is in eventually takes
\* it, and so does the worker.  No thread has to start a call, and no
\* spurious wake-up has to happen.
FairSpecWait ==
  /\ SpecWait
  /\ WF_vars(Worker)
  /\ \A p \in Clients : WF_vars(WaitStep(p))

\* One WAIT queue fed by the producer thread; the main thread subscribes a
\* consumer and stops the worker.
StopCall ==
  \/ CreateQueue(Main, 1, "WAIT", FALSE)
  \/ Subscribe(Main, 1, "A")
  \/ StopProcessing(Main)
  \/ Enqueue(Producer, 1, MaxEnqueue)

StopStep(p) ==
  \/ ControlStep(p)
  \/ EnqueueStep(p)
  \/ PushWoken(p)
  \/ StopNotify(p)

NextStop ==
  \/ Worker
  \/ \E p \in Clients : StopStep(p)
  \/ StopCall
  \/ Spurious

SpecStop == Init /\ [][NextStop]_vars

\* The fairness of FairSpecWait, for the threads of SpecStop.
FairSpecStop ==
  /\ SpecStop
  /\ WF_vars(Worker)
  /\ \A p \in Clients : WF_vars(StopStep(p))

\* One queue that the main thread creates, with the defaults of CreateQueue,
\* and deletes, while the other thread subscribes a consumer to it,
\* unsubscribes it and enqueues.
DeleteCall ==
  \/ CreateQueue(Main, 1, "SKIP_LAST", TRUE)
  \/ DeleteQueue(Main, 1)
  \/ Subscribe(Producer, 1, "A")
  \/ Unsubscribe(Producer, 1)
  \/ Enqueue(Producer, 1, MaxEnqueue)

DeleteStep(p) ==
  \/ ControlStep(p)
  \/ EraseQueue(p)
  \/ EnqueueStep(p)

NextDelete ==
  \/ Worker
  \/ \E p \in Clients : DeleteStep(p)
  \/ DeleteCall
  \/ Undefined
  \/ WorkerSpurious

SpecDelete == Init /\ [][NextDelete]_vars

\* The main thread creates a queue, subscribes a consumer and stops and
\* starts the worker, while the producer thread enqueues.
StartCall ==
  \/ CreateQueue(Main, 1, "SKIP_LAST", TRUE)
  \/ Subscribe(Main, 1, "A")
  \/ StartProcessing(Main)
  \/ StopProcessing(Main)
  \/ Enqueue(Producer, 1, MaxEnqueue)

StartStep(p) ==
  \/ ControlStep(p)
  \/ EnqueueStep(p)
  \/ StopNotify(p)

NextStart ==
  \/ Worker
  \/ \E p \in Clients : StartStep(p)
  \/ StartCall
  \/ WorkerSpurious

SpecStart == Init /\ [][NextStart]_vars

\* ------------------------------------------------------------------ claims
\* The values of the entries of a log that carry one of the tags, in order.
ValuesOf(log, tags) ==
  LET kept == SelectSeq(log, LAMBDA e : e[2] \in tags)
  IN [i \in 1..Len(kept) |-> kept[i][1]]
ValueSet(log, tags) == {log[i][1] : i \in {j \in 1..Len(log) : log[j][2] \in tags}}

pushed(k) == ValuesOf(pushLog[k], {"pushed", "resumed"})
attempted(k) == ValuesOf(pushLog[k], {"pushed", "resumed", "skipped"})
delivered(k) == ValuesOf(popLog[k], {"deliver"})
lost(k) == ValueSet(popLog[k], {"dropped", "cleared"})

\* C1. FIFO per queue: what the consumer callback has received, followed by
\* what is still buffered, is exactly what was appended to the buffer, in
\* append order, without the values DROP_FIRST evicted (or Clear removed):
\* nothing is reordered, duplicated or lost otherwise.
C1_Fifo ==
  \A k \in Keys : queues[k].present =>
    delivered(k) \o queues[k].cpq = SelectSeq(pushed(k), LAMBDA v : v \notin lost(k))

\* C1 witness: a queue lost a value to DROP_FIRST and has then delivered two
\* values pushed after it.
C1_Witness ==
  \E k \in Keys : /\ queues[k].present
                  /\ queues[k].full_mode = "DROP_FIRST"
                  /\ lost(k) # {}
                  /\ Len(delivered(k)) >= 2

\* C2. Capacity: no queue ever holds more than its capacity, under every
\* full mode and every interleaving of the producers and the worker.
C2_Capacity == \A k \in Keys : Len(queues[k].cpq) <= MAX_CAPACITY

\* C2 witness: one Consume has popped from a full WAIT queue and woken two
\* producers that both wait for the one free slot.
C2_Witness ==
  \E k \in Keys :
    /\ queues[k].full_mode = "WAIT"
    /\ Len(queues[k].cpq) = MAX_CAPACITY - 1
    /\ Len(popLog[k]) > 0 /\ popLog[k][Len(popLog[k])][2] = "deliver"
    /\ \A p \in Clients : pc[p] = "Push_woken" /\ ckey[p] = k

\* The prefix of a sequence of at most n elements.
FirstN(seq, n) == SubSeq(seq, 1, IF Len(seq) < n THEN Len(seq) ELSE n)

\* C10. SkipNewest: a Push that finds a SKIP_LAST queue full returns without
\* changing any buffer and without the wake-up (data_ready and the worker
\* are left alone); and a SKIP_LAST queue that nothing was removed from
\* holds the first MAX_CAPACITY values pushed to it, in push order.
C10_SkipNewest ==
  /\ [][\A p \in Clients :
          ( /\ pc[p] = "Push_lock" /\ pc'[p] # "Push_lock" /\ cq[p] = "ok"
            /\ queues[ckey[p]].full_mode = "SKIP_LAST"
            /\ is_full(queues[ckey[p]]) )
          => (queues' = queues /\ data_ready' = data_ready /\ wpc' = wpc /\ pc'[p] = "idle")]_vars
  /\ [](\A k \in Keys :
          (queues[k].present /\ queues[k].full_mode = "SKIP_LAST" /\ popLog[k] = <<>>)
          => queues[k].cpq = FirstN(attempted(k), MAX_CAPACITY))

\* C10 witness: MAX_CAPACITY + 1 values were pushed to a SKIP_LAST queue that
\* nothing was removed from, the last one when it was full.
C10_Witness ==
  \E k \in Keys :
    /\ queues[k].present /\ queues[k].full_mode = "SKIP_LAST" /\ popLog[k] = <<>>
    /\ Len(pushLog[k]) = MAX_CAPACITY + 1
    /\ pushLog[k][MAX_CAPACITY + 1][2] = "skipped"

\* StopProcessing has returned: running is false and its notify_all is done.
StopReturned == ~running /\ \A p \in Clients : pc[p] # "Stop_notify"

\* The worker is in the wait set of the processor's condition variable.
WorkerWaiting == wpc \in {"w1_wait", "w2_wait"}

\* No thread is inside a call.
ClientsIdle == \A p \in Clients : pc[p] = "idle"

\* Key k is subscribed, its queue has a consumer and holds an item.
Deliverable(k) ==
  /\ k \in keys
  /\ queues[k].present
  /\ queues[k].consumer # NoConsumer
  /\ queues[k].cpq # <<>>

\* C3. No starvation: while the worker runs, it is never left in a wait
\* set, with no thread inside a call that could still wake it, while a
\* subscribed key with a consumer holds an item (from such a state no item
\* is delivered unless a further call or a spurious wake-up happens).
C3_NoStarvation ==
  ~(running /\ dtor = "no" /\ WorkerWaiting /\ ClientsIdle /\ \E k \in Keys : Deliverable(k))

\* C4. Shutdown stops consumption: once StopProcessing has returned, the
\* worker begins no further Consume call (q->Consume() in the sweep), on
\* any key.
C4_NoConsumeAfterStop ==
  [][StopReturned => ~(wpc = "iter" /\ wpc' = "Consume")]_vars

\* C5. Destruction terminates: the stop notification is never lost, that
\* is, once StopProcessing has returned the worker is not in a wait set
\* (where only a later Enqueue or a spurious wake-up would end its wait and
\* let the destructor's join return).
C5_StopNeverLost == StopReturned => ~WorkerWaiting

\* A producer suspended in the wait of Push on a full WAIT queue, in the
\* wait set or woken and about to re-evaluate the predicate.
Suspended(p) == pc[p] \in {"Push_wait", "Push_woken"} /\ cq[p] = "ok"

\* A Clear of key k has emptied the buffer and is about to notify.
ClearNotifies(k) == \E t \in Clients : pc[t] = "Clear_notify" /\ ckey[t] = k

\* C6. WaitForSpace backpressure: a suspended producer appends nothing and
\* leaves the wait only into a buffer with free space; no wake-up is lost,
\* that is, a producer is in the wait set with free space in the buffer only
\* while the Clear that made the space is about to notify; and a suspended
\* producer whose buffer has free space eventually appends its value, unless
\* the buffer is full again (or the process has aborted).
C6_WaitForSpace ==
  /\ [][\A p \in Clients :
          Suspended(p) =>
            \/ /\ pc'[p] \in {"Push_wait", "Push_woken"}
               /\ cval[p] \notin ValueSet(pushLog'[ckey[p]], {"pushed", "resumed"})
            \/ /\ pc'[p] = "Notify"
               /\ HasSpace(queues[ckey[p]])
               /\ queues'[ckey[p]].cpq = Append(queues[ckey[p]].cpq, cval[p])]_vars
  /\ [](\A p \in Clients :
          (pc[p] = "Push_wait" /\ cq[p] = "ok" /\ HasSpace(queues[ckey[p]]))
          => ClearNotifies(ckey[p]))
  /\ \A p \in Clients :
       (Suspended(p) /\ HasSpace(queues[ckey[p]]))
       ~> (pc[p] = "Notify" \/ ~HasSpace(queues[ckey[p]]) \/ aborted)

\* C6 witness: a producer that had waited for space has appended its value
\* after a Consume, and another after a Clear.
C6_Witness ==
  \E k \in Keys : \E i, j \in 1..Len(pushLog[k]) :
    /\ i < j
    /\ pushLog[k][i][2] = "resumed" /\ pushLog[k][j][2] = "resumed"
    /\ ValueSet(popLog[k], {"deliver"}) # {}
    /\ ValueSet(popLog[k], {"cleared"}) # {}

\* C7. Stop reaches blocked producers: once StopProcessing has returned,
\* every producer suspended in Push eventually returns from Push.
C7_StopReachesProducers ==
  \A p \in Clients : (StopReturned /\ Suspended(p)) ~> ~Suspended(p)

\* C8. Non-blocking control operations: no thread is left waiting for
\* keys_mtx in Subscribe, Unsubscribe or DeleteQueue while the worker holds
\* keys_mtx in the wait set of its idle wait and no other thread is inside
\* a call that could wake it.
C8_NonBlockingControl ==
  \A p \in Clients :
    ~( /\ pc[p] = "keys_lock"
       /\ keys_mtx = "worker"
       /\ wpc = "w2_wait"
       /\ \A t \in Clients \ {p} : pc[t] = "idle" )

\* Within the current sweep: at most one Consume call and one delivery per
\* key, none for a key outside the sweep's keys, and once the sweep is over
\* exactly one Consume call for each of its keys.
OncePerSweep ==
  /\ \A k \in Keys : /\ sweep.visits[k] <= 1
                     /\ sweep.delivered[k] <= sweep.visits[k]
                     /\ k \notin sweep.keys => sweep.visits[k] = 0
  /\ (wpc = "top" /\ ~aborted) => \A k \in sweep.keys : sweep.visits[k] = 1

\* C9 as claimed. Round-robin sweep: OncePerSweep, and whenever a key a with
\* an earlier delivery receives a delivery, every other key has received at
\* most one delivery since that earlier delivery for a.
C9_BetweenDeliveries ==
  /\ [](OncePerSweep)
  /\ [][\A a \in Keys : \A b \in Keys \ {a} :
          (sweep'.delivered[a] = sweep.delivered[a] + 1 /\ delivered(a) # <<>>)
          => sinceDelivery[a][b] <= 1]_vars

\* C9 as amended. Round-robin sweep: OncePerSweep, and for a subscribed key
\* a, every other key has received at most one delivery since the last
\* Consume call on a (or since a was subscribed).
C9_RoundRobin ==
  /\ OncePerSweep
  /\ \A a \in keys : \A b \in Keys \ {a} : sinceVisit[a][b] <= 1

\* C9 witness: the current sweep has delivered one item for each of the two
\* keys, and an earlier sweep delivered for each of them too.
C9_Witness ==
  \A k \in Keys : sweep.delivered[k] = 1 /\ Len(delivered(k)) >= 2

\* The suffix of a sequence of at most n elements.
LastN(seq, n) == SubSeq(seq, IF Len(seq) < n THEN 1 ELSE Len(seq) - n + 1, Len(seq))

\* Nothing was delivered from or cleared out of queue k.
NoDraining(k) == ValueSet(popLog[k], {"deliver", "cleared"}) = {}

\* C11. DropOldest: a Push that finds a DROP_FIRST queue full evicts the head
\* and appends the value at the tail, the count staying at capacity; and a
\* DROP_FIRST queue that nothing was drained from holds the last MAX_CAPACITY
\* values pushed to it, in push order.
C11_DropOldest ==
  /\ [][\A p \in Clients :
          ( /\ pc[p] = "Push_lock" /\ pc'[p] # "Push_lock" /\ cq[p] = "ok"
            /\ queues[ckey[p]].full_mode = "DROP_FIRST"
            /\ is_full(queues[ckey[p]]) )
          => /\ queues'[ckey[p]].cpq = Append(Tail(queues[ckey[p]].cpq), cval[p])
             /\ Len(queues'[ckey[p]].cpq) = MAX_CAPACITY]_vars
  /\ [](\A k \in Keys :
          (queues[k].present /\ queues[k].full_mode = "DROP_FIRST" /\ NoDraining(k))
          => queues[k].cpq = LastN(pushed(k), MAX_CAPACITY))

\* C11 witness: MAX_CAPACITY + 1 values were pushed to a DROP_FIRST queue
\* with no draining, the last push evicting the first value.
C11_Witness ==
  \E k \in Keys :
    /\ queues[k].present /\ queues[k].full_mode = "DROP_FIRST" /\ NoDraining(k)
    /\ Len(pushed(k)) = MAX_CAPACITY + 1
    /\ lost(k) = {pushed(k)[1]}

\* C12. No-consumer drop: no value is appended to the buffer of a queue with
\* skip_if_no_consumer at a moment when the queue has no consumer.
C12_NoConsumerDrop ==
  [][\A k \in Keys :
       ( /\ queues[k].present /\ queues[k].skip_if_no_consumer
         /\ ValuesOf(pushLog'[k], {"pushed", "resumed"}) # pushed(k) )
       => queues[k].consumer # NoConsumer]_vars

\* C13. Subscribe on an unknown key is safe: for every key the worker
\* visits, looking up the key's queue succeeds, in the sweep and in the scan
\* of the sizes, so that assert(q) never fails and ends the process.
C13_AssertNeverFails == ~aborted

\* C15. Idempotent start/stop of a single worker: at most one worker
\* thread exists that has not been joined, after any sequence of
\* StartProcessing and StopProcessing calls; no call starts a new worker
\* while the previous one has not been joined.
C15_SingleWorker == th <= 1

\* The worker holds a pointer to a queue that DeleteQueue has erased.
WorkerDangling == wq = "dangling"

\* C14. Queue lifetime during Consume: no queue is erased between the moment
\* the worker obtains the pointer to it and the moment its Consume call on
\* that pointer returns.
C14_QueueOutlivesConsume == ~WorkerDangling

\* C16. No missed wake-up in the idle wait: the worker is never in the wait
\* set of the idle wait while data_ready is set.
C16_NoMissedWakeup == ~(wpc = "w2_wait" /\ data_ready)

\* C17. Wake on first subscription: while it runs, the worker is not left
\* in the wait set of the no-keys wait with a key subscribed and no thread
\* inside a call that could still wake it (from such a state nothing is
\* delivered unless a further Enqueue or a spurious wake-up happens).
C17_WakeOnSubscribe == ~(wpc = "w1_wait" /\ keys # {} /\ running /\ ClientsIdle)

\* C18. No busy-wait: the worker does not sweep forever without suspending;
\* again and again it is in the wait set of one of its waits (or it has
\* exited, or the process has aborted).  The number of deliveries of a
\* behaviour is bounded, so from some point on no sweep delivers an item.
C18_NoBusyWait == []<>(WorkerWaiting \/ wpc = "done" \/ aborted)

\* The worker is inside Consume past the consumer check, holding
\* consumer_mtx, and the buffer holds an element: the callback of the
\* attached consumer is about to run or running.
InCallback(k) ==
  wpc = "Consume_locked" /\ wq = "ok" /\ Min(wit) = k /\ queues[k].cpq # <<>>

\* C19. Detach is a barrier for callbacks: a callback is invoked only on a
\* consumer attached to a queue of the map; and while the worker is inside
\* Consume past the consumer check, no Unsubscribe, Subscribe or DeleteQueue
\* detaches or replaces the queue's consumer (the call returns only when
\* the consumer is outside the callback).
C19_DetachIsBarrier ==
  /\ [][\A k \in Keys :
          ValuesOf(popLog'[k], {"deliver"}) # delivered(k)
          => (queues[k].present /\ queues[k].consumer # NoConsumer)]_vars
  /\ [][\A k \in Keys :
          InCallback(k) => queues'[k].consumer = queues[k].consumer]_vars

\* A thread is inside Push or SetConsumer, or suspended in Push, with a
\* pointer to a queue that DeleteQueue has erased.
ClientOnDeleted(p) ==
  /\ cq[p] = "dangling"
  /\ pc[p] \in {"SetConsumer", "Push", "Push_lock", "Push_wait", "Push_woken", "Notify"}

\* C20. No use of a deleted queue by producers or subscribers: no thread is
\* about to call, or inside, Push or SetConsumer on a queue that has been
\* erased from the map.
C20_NoUseOfDeletedQueue == \A p \in Clients : ~ClientOnDeleted(p)

====
